---- MODULE Spec2Model ----
(***************************************************************************)
(* A model of testsuite/utils.py and testsuite/unittests.py: the seed gene *)
(* extraction (extract_seed_genes), the seed statistics                    *)
(* (compute_seed_statistics), the wrapper dispatch (get_algorithm_wrapper) *)
(* and the pipeline of test_algorithm (load_data, run_algorithm).          *)
(*                                                                         *)
(* Three specifications share the module:                                  *)
(*   SpecExtract   extract_seed_genes applied to every bounded score map;  *)
(*   SpecStats     compute_seed_statistics applied to every bounded        *)
(*                 network and seed list;                                  *)
(*   Spec          one run of test_algorithm, statement by statement.      *)
(***************************************************************************)
EXTENDS Integers, Sequences, FiniteSets, TLC

\* ------------------------------------------------------------------ bounds

\* The largest number of entries of a gene score map (SpecExtract).
MaxGenes == 3
\* p-values are the multiples k / (PGrid * 1000) for k in 0..MaxP, and NaN.
PGrid == 6
MaxP == 7
\* The largest number of gene columns of the expression matrix (Spec).
MaxColumns == 2
\* The number of nodes of the GGI network (SpecStats); nodes are 0..NumNodes-1.
NumNodes == 3
\* The largest number of seed genes handed to compute_seed_statistics.
MaxSeeds == 3

\* ------------------------------------------------- outcomes of a Python call

\* A call either returns a value or raises an exception.
Return(v) == [kind |-> "return", value |-> v, exc |-> "none"]
Raise(e) == [kind |-> "raise", value |-> <<>>, exc |-> e]

\* ------------------------------------------------------------------ floats

\* A Python float is modelled as an exact fraction num/den (den > 0) or NaN.
Float(n, d) == [nan |-> FALSE, num |-> n, den |-> d]
NaN == [nan |-> TRUE, num |-> 0, den |-> 1]

\* a < b on floats: every comparison with NaN is False.
FloatLess(a, b) == ~a.nan /\ ~b.nan /\ a.num * b.den < b.num * a.den
\* a >= b on floats: every comparison with NaN is False.
FloatGeq(a, b) == ~a.nan /\ ~b.nan /\ a.num * b.den >= b.num * a.den
\* a == 1.0
FloatIsOne(a) == ~a.nan /\ a.num = a.den

\* The nominal significance threshold 0.001 of extract_seed_genes.
NominalNum == 1
NominalDen == 1000
Nominal == Float(NominalNum, NominalDen)

\* The p-values a gene score map may hold: the grid around the thresholds
\* 0.001/n, and NaN (what scipy reports for an undefined test).
PDen == PGrid * NominalDen
PValues == {Float(k, PDen) : k \in 0..MaxP} \cup {NaN}

\* ------------------------------------------------------------ sequences

InSeq(x, s) == \E i \in 1..Len(s) : s[i] = x
Range(s) == {s[i] : i \in 1..Len(s)}

RECURSIVE Filter(_, _, _)
\* [x for x in s if keep[x]], in the order of s.
Filter(s, keep, i) ==
  IF i > Len(s) THEN <<>>
  ELSE (IF keep[s[i]] THEN <<s[i]>> ELSE <<>>) \o Filter(s, keep, i + 1)

\* --------------------------------------------------- extract_seed_genes

\* A gene score map (a dict in insertion order) with n entries is the sequence
\* of its p-values: its keys are the gene identifiers 1..n, in that order.
GeneScoreMaps(maxLen) == UNION {[1..n -> PValues] : n \in 0..maxLen}
Keys(gene_p_values) == [g \in 1..Len(gene_p_values) |-> g]

\* utils.py:206  threshold = 0.001 / len(gene_p_values)   (len > 0)
Threshold(gene_p_values) ==
  Float(Nominal.num, Nominal.den * Len(gene_p_values))

\* A faulty variant of IsSeed: `p_value <= threshold`.
IsSeedOrEqual(p_value, threshold) == FloatGeq(threshold, p_value)

\* A faulty variant of IsSeed: `not (p_value >= threshold)`, which selects NaN.
IsSeedNotGeq(p_value, threshold) == ~FloatGeq(p_value, threshold)

\* utils.py:207  the filter `p_value < threshold`
IsSeed(p_value, threshold) == FloatLess(p_value, threshold)

\* utils.py:193-207
extract_seed_genes(gene_p_values) ==
  IF Len(gene_p_values) = 0
  THEN Raise("ZeroDivisionError")
  ELSE LET threshold == Threshold(gene_p_values)
           keep == [g \in 1..Len(gene_p_values) |->
                      IsSeed(gene_p_values[g], threshold)]
       IN Return(Filter(Keys(gene_p_values), keep, 1))

\* ---------------------------------------------------------- GGI networks

\* After load_ggi_network (utils.py:86) the nodes are the integers 0..n-1.
Nodes == 0..(NumNodes - 1)
\* Gene identifiers: one more than there are nodes, so that for every GeneID
\* labelling some identifier is absent from the network.
GeneIds == 0..NumNodes
AllEdges == {e \in SUBSET Nodes : Cardinality(e) = 2}

\* The GeneID attribute: every node has one, no two nodes share one.
GeneIdLabellings ==
  {f \in [Nodes -> GeneIds] : \A a, b \in Nodes : f[a] = f[b] => a = b}

\* An nx.Graph: its nodes, its undirected edges, its GeneID node attribute.
Networks ==
  {[nodes |-> Nodes, edges |-> E, GeneID |-> f] :
     E \in SUBSET AllEdges, f \in GeneIdLabellings}

\* Lists of pairwise distinct gene identifiers (extract_seed_genes returns
\* the keys of a dict, so a seed list never repeats a gene).
SeedLists ==
  UNION {{s \in [1..n -> GeneIds] : \A i, j \in 1..n : s[i] = s[j] => i = j} :
           n \in 0..MaxSeeds}

Neighbors(G, v) == {w \in G.nodes : {v, w} \in G.edges}

\* nx.Graph.subgraph(nodes): the induced subgraph.
subgraph(G, nodes) ==
  [nodes |-> G.nodes \cap nodes,
   edges |-> {e \in G.edges : e \subseteq nodes},
   GeneID |-> [v \in G.nodes \cap nodes |-> G.GeneID[v]]]

RECURSIVE plain_bfs(_, _, _)
\* networkx _plain_bfs: the nodes reached from the frontier, level by level.
plain_bfs(G, frontier, seen) ==
  IF frontier = {} THEN seen
  ELSE LET next == (UNION {Neighbors(G, v) : v \in frontier}) \ seen
       IN plain_bfs(G, next, seen \cup next)

\* nx.connected_components(G): one node set per component.
connected_components(G) == {plain_bfs(G, {v}, {v}) : v \in G.nodes}

SetMax(S) == CHOOSE x \in S : \A y \in S : y <= x

\* A faulty variant of LccRatio: the ratio inverted, node count over largest component.
LccRatioInverted(sub) ==
  LET sizes == {Cardinality(comp) : comp \in connected_components(sub)}
  IN IF sizes = {} THEN Raise("ValueError")
     ELSE Return(Float(Cardinality(sub.nodes), SetMax(sizes)))

\* utils.py:248  np.max([len(comp) for comp in ...]) / subgraph.number_of_nodes()
\* np.max of an empty list raises ValueError before anything is divided.
LccRatio(sub) ==
  LET sizes == {Cardinality(comp) : comp \in connected_components(sub)}
  IN IF sizes = {} THEN Raise("ValueError")
     ELSE Return(Float(SetMax(sizes), Cardinality(sub.nodes)))

RECURSIVE BfsDistance(_, _, _, _, _)
BfsDistance(G, frontier, seen, target, d) ==
  IF target \in frontier THEN Return(d)
  ELSE LET next == (UNION {Neighbors(G, v) : v \in frontier}) \ seen
       IN IF next = {} THEN Raise("NetworkXNoPath")
          ELSE BfsDistance(G, next, seen \cup next, target, d + 1)

\* nx.shortest_path_length(G, source=, target=), unweighted: NodeNotFound
\* when an endpoint is no node of G, NetworkXNoPath when there is no path.
shortest_path_length(G, source, target) ==
  IF source \notin G.nodes \/ target \notin G.nodes
  THEN Raise("NodeNotFound")
  ELSE BfsDistance(G, {source}, {source}, target, 0)

RECURSIVE PairsFrom(_, _, _)
PairsFrom(s, i, j) ==
  IF i >= Len(s) THEN <<>>
  ELSE IF j > Len(s) THEN PairsFrom(s, i + 1, i + 2)
  ELSE << <<s[i], s[j]>> >> \o PairsFrom(s, i, j + 1)

\* itertools.combinations(s, 2), in its order.
combinations(s) == PairsFrom(s, 1, 2)

RECURSIVE SumShortestDistances(_, _, _, _, _)
\* utils.py:249-253  the loop over the pairs of seed_genes: the pair's two
\* gene identifiers themselves are handed to shortest_path_length as nodes.
SumShortestDistances(ggi_network, pairs, k, sum, num) ==
  IF k > Len(pairs)
  THEN Return([sum_shortest_distances |-> sum, num_combinations |-> num])
  ELSE LET d == shortest_path_length(ggi_network, pairs[k][1], pairs[k][2])
       IN IF d.kind = "raise" THEN d
          ELSE SumShortestDistances(ggi_network, pairs, k + 1,
                                    sum + d.value, num + 1)

\* A faulty variant of MeanShortestDistance: 0 when there is no pair.
MeanOrZero(sum_shortest_distances, num_combinations) ==
  IF num_combinations = 0 THEN Return(Float(0, 1))
  ELSE Return(Float(sum_shortest_distances, num_combinations))

\* utils.py:254  sum_shortest_distances / num_combinations, on Python ints.
MeanShortestDistance(sum_shortest_distances, num_combinations) ==
  IF num_combinations = 0 THEN Raise("ZeroDivisionError")
  ELSE Return(Float(sum_shortest_distances, num_combinations))

\* utils.py:246  the nodes whose GeneID is one of the seed genes.
SeedNodes(ggi_network, seed_genes) ==
  {node \in ggi_network.nodes : InSeq(ggi_network.GeneID[node], seed_genes)}

\* utils.py:228-255
compute_seed_statistics(ggi_network, seed_genes) ==
  LET seed_nodes == SeedNodes(ggi_network, seed_genes)
      lcc == LccRatio(subgraph(ggi_network, seed_nodes))
  IN IF lcc.kind = "raise" THEN lcc
     ELSE LET loop == SumShortestDistances(ggi_network,
                                           combinations(seed_genes), 1, 0, 0)
          IN IF loop.kind = "raise" THEN loop
             ELSE LET mean == MeanShortestDistance(
                                loop.value.sum_shortest_distances,
                                loop.value.num_combinations)
                  IN IF mean.kind = "raise" THEN mean
                     ELSE Return([lcc_ratio |-> lcc.value,
                                  mean_shortest_distance |-> mean.value])

\* ------------------------------------------------------------- selectors

\* utils.py:53-60  the members of AlgorithmSelector.
AlgorithmSelector ==
  {"DIAMOND", "GXNA", "CLUSTEX2", "HOTNET", "PINNACLEZ", "GIGA"}
\* An argument of get_algorithm_wrapper that equals none of the six members
\* (a member added later, as the todo at utils.py:52 plans; a plain string;
\* None).
NotWired == "NOT_WIRED"
\* utils.py:40-46  the members of NetworkGeneratorSelector.
NetworkGeneratorSelector ==
  {"ORIGINAL", "REWIRED", "SHUFFLED", "SCALE_FREE", "UNIFORM"}
\* unittests.py:13-20  the network and the condition the tests run on.
ggi_networks == {"HPRD"}
conditions == {"LC"}

\* Python's None.
None == "None"

\* utils.py:147-166  the if/elif chain; no branch taken returns None.
get_algorithm_wrapper(algorithm_selector) ==
  IF algorithm_selector = "GXNA" THEN "GXNAWrapper"
  ELSE IF algorithm_selector = "CLUSTEX2" THEN "ClustEx2Wrapper"
  ELSE IF algorithm_selector = "DIAMOND" THEN "DIAMOnDWrapper"
  ELSE IF algorithm_selector = "HOTNET" THEN "HierarchicalHotNetWrapper"
  ELSE IF algorithm_selector = "PINNACLEZ" THEN "PinnacleZWrapper"
  ELSE IF algorithm_selector = "GIGA" THEN "GiGAWrapper"
  ELSE None

\* A faulty variant of NeedsRegeneration: the network is regenerated in every run.
AlwaysRegenerate(network_generator_selector) == TRUE

\* unittests.py:39  network_generator_selector != NetworkGeneratorSelector.ORIGINAL
NeedsRegeneration(network_generator_selector) ==
  network_generator_selector # "ORIGINAL"

\* A faulty variant of LoadDataResult: the gene scores are left out of the tuple.
LoadDataResultWithoutScores(net, expr, phen, seeds, scores) ==
  <<net, expr, phen, seeds>>

\* unittests.py:42  return ggi_network, expression_data, phenotypes, seed_genes, gene_scores
LoadDataResult(net, expr, phen, seeds, scores) ==
  <<net, expr, phen, seeds, scores>>

\* The expression matrices: an object with its gene columns 1..n.
ExpressionData(n) == [obj |-> "expression_data", columns |-> [g \in 1..n |-> g]]
\* The network objects: the one load_ggi_network returns, and the new one
\* generators.generate_network returns for a generator.
LoadedNetwork == [obj |-> "ggi_network", made_by |-> "load_ggi_network"]
GeneratedNetwork(generator) == [obj |-> "ggi_network", made_by |-> generator]
Phenotypes == [obj |-> "phenotypes"]

\* The 2-tuples a wrapper's run_algorithm returns: a result gene set over the
\* expression matrix's genes, and a topology statistic.
WrapperResults(expression_data) ==
  {<<genes, "mean_degree">> : genes \in SUBSET Range(expression_data.columns)}

\* ------------------------------------------------------------ variables

VARIABLES
  \* SpecExtract: the argument and the outcome of extract_seed_genes
  esg_pc, gene_p_values, esg_outcome,
  \* SpecStats: the arguments and the outcome of compute_seed_statistics
  css_pc, css_ggi_network, css_seed_genes, css_outcome,
  \* Spec: the parameters of test_algorithm
  algorithm_selector, ggi_network_selector, condition_selector,
  network_generator_selector,
  \* the statement test_algorithm is at, the calls made so far, the exception
  \* that ended the run
  pc, calls, exception,
  \* the locals of load_data (loaded_ggi_network keeps what load_ggi_network
  \* returned when ggi_network is assigned again at unittests.py:41)
  expression_data, loaded_ggi_network, ggi_network, phenotypes, gene_scores,
  seed_genes,
  \* the locals of test_algorithm and run_algorithm
  data, algorithm_wrapper, wrapper_args, result_genes, mean_degree,
  scorer_args

esgVars == <<esg_pc, gene_p_values, esg_outcome>>
cssVars == <<css_pc, css_ggi_network, css_seed_genes, css_outcome>>
selVars == <<algorithm_selector, ggi_network_selector, condition_selector,
             network_generator_selector>>
loadVars == <<expression_data, loaded_ggi_network, ggi_network, phenotypes,
              gene_scores, seed_genes>>
runVars == <<data, algorithm_wrapper, wrapper_args, result_genes, mean_degree,
             scorer_args>>
pipeVars == <<selVars, pc, calls, exception, loadVars, runVars>>
vars == <<esgVars, cssVars, pipeVars>>

Unbound == "unbound"
NoException == [type |-> "none", raised_in |-> "none"]
PipelineIdle ==
  /\ algorithm_selector = "none" /\ ggi_network_selector = "none"
  /\ condition_selector = "none" /\ network_generator_selector = "none"
  /\ pc = "idle" /\ calls = <<>> /\ exception = NoException
  /\ expression_data = Unbound /\ loaded_ggi_network = Unbound
  /\ ggi_network = Unbound /\ phenotypes = Unbound
  /\ gene_scores = Unbound /\ seed_genes = Unbound
  /\ data = Unbound /\ algorithm_wrapper = Unbound /\ wrapper_args = Unbound
  /\ result_genes = Unbound /\ mean_degree = Unbound /\ scorer_args = Unbound

NotCalled == Raise("not called")
EmptyNetwork == [nodes |-> {}, edges |-> {}, GeneID |-> <<>>]
EsgIdle == esg_pc = "idle" /\ gene_p_values = <<>> /\ esg_outcome = NotCalled
CssIdle ==
  /\ css_pc = "idle"
  /\ css_ggi_network = EmptyNetwork
  /\ css_seed_genes = <<>>
  /\ css_outcome = NotCalled

\* ------------------------------------------------------------ SpecExtract

InitExtract ==
  /\ esg_pc = "call"
  /\ gene_p_values \in GeneScoreMaps(MaxGenes)
  /\ esg_outcome = NotCalled
  /\ CssIdle
  /\ PipelineIdle

CallExtractSeedGenes ==
  /\ esg_pc = "call"
  /\ esg_outcome' = extract_seed_genes(gene_p_values)
  /\ esg_pc' = "done"
  /\ UNCHANGED <<gene_p_values, cssVars, pipeVars>>

NextExtract == CallExtractSeedGenes

SpecExtract == InitExtract /\ [][NextExtract]_vars

\* -------------------------------------------------------------- SpecStats

InitStats ==
  /\ css_pc = "call"
  /\ css_ggi_network \in Networks
  /\ css_seed_genes \in SeedLists
  /\ css_outcome = NotCalled
  /\ EsgIdle
  /\ PipelineIdle

CallComputeSeedStatistics ==
  /\ css_pc = "call"
  /\ css_outcome' = compute_seed_statistics(css_ggi_network, css_seed_genes)
  /\ css_pc' = "done"
  /\ UNCHANGED <<css_ggi_network, css_seed_genes, esgVars, pipeVars>>

NextStats == CallComputeSeedStatistics

SpecStats == InitStats /\ [][NextStats]_vars

\* ------------------------------------------------- Spec: test_algorithm

\* unittests.py:53-57  one parametrised run of test_algorithm.
Init ==
  /\ algorithm_selector \in AlgorithmSelector \cup {NotWired}
  /\ ggi_network_selector \in ggi_networks
  /\ condition_selector \in conditions
  /\ network_generator_selector \in NetworkGeneratorSelector
  /\ pc = "load_expression_data"
  /\ calls = <<>>
  /\ exception = NoException
  /\ expression_data = Unbound /\ loaded_ggi_network = Unbound
  /\ ggi_network = Unbound /\ phenotypes = Unbound
  /\ gene_scores = Unbound /\ seed_genes = Unbound
  /\ data = Unbound /\ algorithm_wrapper = Unbound /\ wrapper_args = Unbound
  /\ result_genes = Unbound /\ mean_degree = Unbound /\ scorer_args = Unbound
  /\ EsgIdle
  /\ CssIdle

\* unittests.py:30
LoadExpressionData ==
  /\ pc = "load_expression_data"
  /\ \E n \in 0..MaxColumns : expression_data' = ExpressionData(n)
  /\ calls' = Append(calls, "load_expression_data")
  /\ pc' = "load_ggi_network"
  /\ UNCHANGED <<selVars, exception, loaded_ggi_network, ggi_network,
                 phenotypes, gene_scores, seed_genes, runVars, esgVars, cssVars>>

\* unittests.py:32
LoadGgiNetwork ==
  /\ pc = "load_ggi_network"
  /\ ggi_network' = LoadedNetwork
  /\ loaded_ggi_network' = LoadedNetwork
  /\ calls' = Append(calls, "load_ggi_network")
  /\ pc' = "load_phenotypes"
  /\ UNCHANGED <<selVars, exception, expression_data, phenotypes, gene_scores,
                 seed_genes, runVars, esgVars, cssVars>>

\* unittests.py:34
LoadPhenotypes ==
  /\ pc = "load_phenotypes"
  /\ phenotypes' = Phenotypes
  /\ calls' = Append(calls, "load_phenotypes")
  /\ pc' = "compute_gene_p_values"
  /\ UNCHANGED <<selVars, exception, expression_data, loaded_ggi_network,
                 ggi_network, gene_scores, seed_genes, runVars, esgVars,
                 cssVars>>

\* unittests.py:36 and utils.py:186-189: one score per gene column, each any
\* p-value the test can report.
ComputeGenePValues ==
  /\ pc = "compute_gene_p_values"
  /\ gene_scores' \in [1..Len(expression_data.columns) -> PValues]
  /\ calls' = Append(calls, "compute_gene_p_values")
  /\ pc' = "extract_seed_genes"
  /\ UNCHANGED <<selVars, exception, expression_data, loaded_ggi_network,
                 ggi_network, phenotypes, seed_genes, runVars, esgVars,
                 cssVars>>

\* unittests.py:38-39: the call, and the branch on the generator selector.
ExtractSeedGenes ==
  /\ pc = "extract_seed_genes"
  /\ calls' = Append(calls, "extract_seed_genes")
  /\ LET outcome == extract_seed_genes(gene_scores)
     IN IF outcome.kind = "raise"
        THEN /\ exception' = [type |-> outcome.exc,
                              raised_in |-> "extract_seed_genes"]
             /\ pc' = "failed"
             /\ UNCHANGED seed_genes
        ELSE /\ seed_genes' = outcome.value
             /\ pc' = IF NeedsRegeneration(network_generator_selector)
                      THEN "generate_network" ELSE "return_data"
             /\ UNCHANGED exception
  /\ UNCHANGED <<selVars, expression_data, loaded_ggi_network, ggi_network,
                 phenotypes, gene_scores, runVars, esgVars, cssVars>>

\* unittests.py:41
GenerateNetwork ==
  /\ pc = "generate_network"
  /\ ggi_network' = GeneratedNetwork(network_generator_selector)
  /\ calls' = Append(calls, "generate_network")
  /\ pc' = "return_data"
  /\ UNCHANGED <<selVars, exception, expression_data, loaded_ggi_network,
                 phenotypes, gene_scores, seed_genes, runVars, esgVars,
                 cssVars>>

\* unittests.py:42 and 59
LoadDataReturn ==
  /\ pc = "return_data"
  /\ data' = LoadDataResult(ggi_network, expression_data, phenotypes,
                            seed_genes, gene_scores)
  /\ pc' = "get_algorithm_wrapper"
  /\ UNCHANGED <<selVars, calls, exception, loadVars, algorithm_wrapper,
                 wrapper_args, result_genes, mean_degree, scorer_args,
                 esgVars, cssVars>>

\* unittests.py:61
GetAlgorithmWrapper ==
  /\ pc = "get_algorithm_wrapper"
  /\ algorithm_wrapper' = get_algorithm_wrapper(algorithm_selector)
  /\ calls' = Append(calls, "get_algorithm_wrapper")
  /\ pc' = "run_algorithm"
  /\ UNCHANGED <<selVars, exception, loadVars, data, wrapper_args,
                 result_genes, mean_degree, scorer_args, esgVars, cssVars>>

\* unittests.py:47 on None: the attribute lookup None.run_algorithm fails.
RunAlgorithmOnNone ==
  /\ pc = "run_algorithm"
  /\ algorithm_wrapper = None
  /\ exception' = [type |-> "AttributeError", raised_in |-> "run_algorithm"]
  /\ pc' = "failed"
  /\ UNCHANGED <<selVars, calls, loadVars, runVars, esgVars, cssVars>>

\* unittests.py:47  result_genes, mean_degree = algorithm_wrapper.run_algorithm(*data)
RunAlgorithm ==
  /\ pc = "run_algorithm"
  /\ algorithm_wrapper # None
  /\ wrapper_args' = data
  /\ \E returned \in WrapperResults(expression_data) :
       /\ result_genes' = returned[1]
       /\ mean_degree' = returned[2]
  /\ calls' = Append(calls, "run_algorithm")
  /\ pc' = "compute_mean_mutual_information"
  /\ UNCHANGED <<selVars, exception, loadVars, data, algorithm_wrapper,
                 scorer_args, esgVars, cssVars>>

\* unittests.py:49  scores.compute_mean_mutual_information(data[1], data[2], result_genes)
ComputeMeanMutualInformation ==
  /\ pc = "compute_mean_mutual_information"
  /\ scorer_args' = <<data[2], data[3], result_genes>>
  /\ calls' = Append(calls, "compute_mean_mutual_information")
  /\ pc' = "done"
  /\ UNCHANGED <<selVars, exception, loadVars, data, algorithm_wrapper,
                 wrapper_args, result_genes, mean_degree, esgVars, cssVars>>

Next ==
  \/ LoadExpressionData
  \/ LoadGgiNetwork
  \/ LoadPhenotypes
  \/ ComputeGenePValues
  \/ ExtractSeedGenes
  \/ GenerateNetwork
  \/ LoadDataReturn
  \/ GetAlgorithmWrapper
  \/ RunAlgorithmOnNone
  \/ RunAlgorithm
  \/ ComputeMeanMutualInformation

Spec == Init /\ [][Next]_vars

\* ================================================================ claims

\* ----------------------------------------------- reference definitions
\* What the claims speak of, defined apart from the operators above.

IsPrefix(s, t) == Len(s) <= Len(t) /\ \A i \in 1..Len(s) : s[i] = t[i]
SetMin(S) == CHOOSE x \in S : \A y \in S : x <= y
FloatEq(a, b) == ~a.nan /\ ~b.nan /\ a.num * b.den = b.num * a.den

\* p < 0.001 / n  and  p >= 0.001 / n  for a p-value that is a number.
BelowBonferroni(p, n) == ~p.nan /\ p.num * NominalDen * n < NominalNum * p.den
AtLeastBonferroni(p, n) ==
  ~p.nan /\ p.num * NominalDen * n >= NominalNum * p.den

\* The lengths (in edges) of the walks from a to b over the given edges.
WalkLengths(nodes, edges, a, b) ==
  {k \in 0..(Cardinality(nodes) - 1) :
     \E w \in [0..k -> nodes] :
       /\ w[0] = a
       /\ w[k] = b
       /\ \A i \in 0..(k - 1) : {w[i], w[i + 1]} \in edges}
Connected(nodes, edges, a, b) == WalkLengths(nodes, edges, a, b) # {}
Distance(nodes, edges, a, b) == SetMin(WalkLengths(nodes, edges, a, b))

\* Whether gene g is the GeneID of a node of G, and that node.
InNetwork(G, g) == \E n \in G.nodes : G.GeneID[n] = g
NodeOf(G, g) == CHOOSE n \in G.nodes : G.GeneID[n] = g

\* The pairs (positions i < j) of seed genes that are both in the network,
\* and those of them joined by a path of the full network.
PresentPairs(G, seeds) ==
  {ij \in (1..Len(seeds)) \X (1..Len(seeds)) :
     ij[1] < ij[2] /\ InNetwork(G, seeds[ij[1]]) /\ InNetwork(G, seeds[ij[2]])}
PairConnected(G, seeds, ij) ==
  Connected(G.nodes, G.edges, NodeOf(G, seeds[ij[1]]), NodeOf(G, seeds[ij[2]]))
ReachablePairs(G, seeds) ==
  {ij \in PresentPairs(G, seeds) : PairConnected(G, seeds, ij)}

RECURSIVE SumDistances(_, _, _)
SumDistances(G, seeds, pairs) ==
  IF pairs = {} THEN 0
  ELSE LET ij == CHOOSE x \in pairs : TRUE
       IN Distance(G.nodes, G.edges, NodeOf(G, seeds[ij[1]]),
                   NodeOf(G, seeds[ij[2]]))
          + SumDistances(G, seeds, pairs \ {ij})

\* The nodes of the seed genes, and whether the subgraph they induce is
\* connected.
NodesOfSeeds(G, seeds) == {n \in G.nodes : \E i \in 1..Len(seeds) : seeds[i] = G.GeneID[n]}
InducedConnected(G, S) ==
  \A a, b \in S : Connected(S, {e \in G.edges : e \subseteq S}, a, b)

\* The seed genes are three genes of the network whose nodes form a triangle.
IsTriangle(G, seeds) ==
  /\ Len(seeds) = 3
  /\ \A i \in 1..3 : InNetwork(G, seeds[i])
  /\ \A i, j \in 1..3 :
       i < j => {NodeOf(G, seeds[i]), NodeOf(G, seeds[j])} \in G.edges

EsgReturned == esg_pc = "done" /\ esg_outcome.kind = "return"
CssDone == css_pc = "done"
CssReturned == css_pc = "done" /\ css_outcome.kind = "return"

\* ------------------------------------------------------------------ C1

C9_UndefinedScoreIsNeverSelected ==
  EsgReturned =>
    \A g \in 1..Len(gene_p_values) :
      IF gene_p_values[g].nan
      THEN g \notin Range(esg_outcome.value)
      ELSE g \in Range(esg_outcome.value)
             <=> BelowBonferroni(gene_p_values[g], Len(gene_p_values))

\* A map with an undefined score beside a selected gene.
C9_Witness ==
  /\ EsgReturned
  /\ \E g, h \in 1..Len(gene_p_values) :
       /\ gene_p_values[g].nan
       /\ g \notin Range(esg_outcome.value)
       /\ h \in Range(esg_outcome.value)

\* ------------------------------------------------------------------ C2

\* C2: for a seed list of three genes whose nodes form a triangle of the
\* network, compute_seed_statistics returns LCC ratio 1.0 and mean
\* shortest-path distance 1.0, whatever the GeneID values of the nodes.
C2_TriangleYieldsOneAndOne ==
  (CssDone /\ IsTriangle(css_ggi_network, css_seed_genes)) =>
    /\ css_outcome.kind = "return"
    /\ FloatIsOne(css_outcome.value.lcc_ratio)
    /\ FloatIsOne(css_outcome.value.mean_shortest_distance)

\* ------------------------------------------------------------------ C3

\* C3: whenever compute_seed_statistics returns, the LCC ratio is a number in
\* [0, 1], and it is exactly 1.0 when the subgraph induced by the nodes of
\* the seed genes is connected.
C3_LccRatioInUnitInterval ==
  CssReturned =>
    LET lcc == css_outcome.value.lcc_ratio
        S == NodesOfSeeds(css_ggi_network, css_seed_genes)
    IN /\ ~lcc.nan
       /\ lcc.den > 0
       /\ 0 <= lcc.num
       /\ lcc.num <= lcc.den
       /\ InducedConnected(css_ggi_network, S) => FloatIsOne(lcc)

\* A return for two or more seed nodes that induce a connected subgraph.
C3_Witness ==
  /\ CssReturned
  /\ Cardinality(NodesOfSeeds(css_ggi_network, css_seed_genes)) >= 2
  /\ InducedConnected(css_ggi_network,
                      NodesOfSeeds(css_ggi_network, css_seed_genes))
  /\ FloatIsOne(css_outcome.value.lcc_ratio)

\* ------------------------------------------------------------------ C6

\* C6: with fewer than two seed genes compute_seed_statistics returns no
\* statistics at all (no numeric mean, 0 included) but raises; and when no
\* seed gene is a node's GeneID (the induced subgraph has no node) it raises
\* ValueError, not a ZeroDivisionError.
C6_DegenerateSeedSetRaises ==
  CssDone =>
    /\ Len(css_seed_genes) < 2 =>
         /\ css_outcome.kind = "raise"
         /\ css_outcome.exc \in {"ValueError", "ZeroDivisionError"}
    /\ NodesOfSeeds(css_ggi_network, css_seed_genes) = {} =>
         /\ css_outcome.kind = "raise"
         /\ css_outcome.exc = "ValueError"

\* One seed gene that is in the network: the LCC ratio is computed, the mean
\* over no pair is not.
C6_Witness ==
  /\ CssDone
  /\ Len(css_seed_genes) = 1
  /\ NodesOfSeeds(css_ggi_network, css_seed_genes) # {}
  /\ css_outcome.kind = "raise"
  /\ css_outcome.exc = "ZeroDivisionError"

\* ------------------------------------------------------------------ C7

\* C7: when some seed genes are absent from the network and at least two are
\* present and pairwise connected, compute_seed_statistics returns, and its
\* mean is the mean distance over the pairs of present seed genes.
C7_AbsentSeedsAreDropped ==
  (/\ CssDone
   /\ \E i \in 1..Len(css_seed_genes) :
        ~InNetwork(css_ggi_network, css_seed_genes[i])
   /\ PresentPairs(css_ggi_network, css_seed_genes) # {}
   /\ ReachablePairs(css_ggi_network, css_seed_genes)
        = PresentPairs(css_ggi_network, css_seed_genes))
  =>
    /\ css_outcome.kind = "return"
    /\ FloatEq(css_outcome.value.mean_shortest_distance,
               Float(SumDistances(css_ggi_network, css_seed_genes,
                       PresentPairs(css_ggi_network, css_seed_genes)),
                     Cardinality(PresentPairs(css_ggi_network,
                                              css_seed_genes))))

\* ------------------------------------------------------------------ C8

\* C8: when two seed genes of the network are joined by no path,
\* compute_seed_statistics raises, or returns a mean over the reachable pairs
\* alone (the unreachable pair neither counted nor summed).
C8_UnreachablePairNeverCounted ==
  (/\ CssDone
   /\ ReachablePairs(css_ggi_network, css_seed_genes)
        # PresentPairs(css_ggi_network, css_seed_genes))
  =>
    \/ css_outcome.kind = "raise"
    \/ /\ css_outcome.kind = "return"
       /\ css_outcome.value.mean_shortest_distance.den
            = Cardinality(ReachablePairs(css_ggi_network, css_seed_genes))
       /\ css_outcome.value.mean_shortest_distance.num
            = SumDistances(css_ggi_network, css_seed_genes,
                           ReachablePairs(css_ggi_network, css_seed_genes))

\* ------------------------------------------------------------------ C4

\* C4: get_algorithm_wrapper called with a selector that has no wired wrapper
\* ends the run there with an "unsupported algorithm" error; it binds no
\* wrapper (None included) and the run never goes on to run_algorithm.
C4_UnsupportedFailsAtResolution ==
  (algorithm_selector \notin AlgorithmSelector
     /\ InSeq("get_algorithm_wrapper", calls))
  =>
    /\ pc = "failed"
    /\ exception.raised_in = "get_algorithm_wrapper"
    /\ algorithm_wrapper = Unbound

\* ------------------------------------------------------------------ C5

WrapperInvoked == InSeq("run_algorithm", calls)
LoadDataReturned == InSeq("get_algorithm_wrapper", calls)

ExpectedCalls(generator) ==
  <<"load_expression_data", "load_ggi_network", "load_phenotypes",
    "compute_gene_p_values", "extract_seed_genes">>
  \o (IF generator = "ORIGINAL" THEN <<>> ELSE <<"generate_network">>)
  \o <<"get_algorithm_wrapper", "run_algorithm",
       "compute_mean_mutual_information">>

\* C10: the calls of a run are made in the order loading, scoring, seed
\* extraction, network regeneration, wrapper resolution, algorithm
\* invocation, meaningfulness scoring; once load_data has returned the
\* network was regenerated if and only if the generator selector is not
\* ORIGINAL; and with ORIGINAL the network handed to the algorithm is the one
\* load_ggi_network returned.
C10_StagesInOrder ==
  /\ IsPrefix(calls, ExpectedCalls(network_generator_selector))
  /\ LoadDataReturned =>
       (InSeq("generate_network", calls)
          <=> network_generator_selector # "ORIGINAL")
  /\ (WrapperInvoked /\ network_generator_selector = "ORIGINAL") =>
       wrapper_args[1] = loaded_ggi_network
  /\ (WrapperInvoked /\ network_generator_selector # "ORIGINAL") =>
       wrapper_args[1] = GeneratedNetwork(network_generator_selector)

\* A complete run with a regenerated network.
C10_Witness ==
  /\ pc = "done"
  /\ network_generator_selector = "REWIRED"
  /\ calls = ExpectedCalls("REWIRED")
  /\ wrapper_args[1] # loaded_ggi_network

====
